---- MODULE Spec2Model ----
(***************************************************************************)
(* The simulation core of the runner game (src/components/GameCanvas.tsx, *)
(* constants from src/App.tsx lines 56-71, host from src/App.tsx 4-19).    *)
(*                                                                         *)
(* Numbers.  The program computes in floating point; the model computes    *)
(* the same expressions exactly, in fixed point:                           *)
(*   - lengths and positions in 1/1000 px (PX = one pixel);                *)
(*   - velocities and gameSpeed in 1/1000 px per nominal frame;            *)
(*   - time and dt in whole nominal frames; dt is in 0..4 (4 is the clamp  *)
(*     of loop());                                                         *)
(*   - frameCount in nominal frames; cycle is the numerator of             *)
(*     cycleRef over CYCLE_PERIOD, i.e. cycleRef = cycle / 3000;           *)
(*   - score in units of 1/SCORE_DEN points, so that                       *)
(*     0.1 * (gameSpeed / INITIAL_SPEED) * dt = gameSpeed * dt units;      *)
(*   - particle life and decay in 1/10000;                                 *)
(*   - a value of Math.random() as hundredths u in 0..99 (u/100).          *)
(* Rounding error of IEEE doubles is modelled for gameSpeed only (see      *)
(* RoundErr), where the comparison with MAX_SPEED depends on it.           *)
(***************************************************************************)
EXTENDS Integers, Sequences, FiniteSets, TLC

VARIABLES
    status,         \* statusRef.current
    displayStatus,  \* React state displayStatus
    player,         \* playerRef.current
    obstacles,      \* obstaclesRef.current
    clouds,         \* cloudsRef.current
    particles,      \* particlesRef.current (the pool)
    gameSpeed,      \* gameSpeedRef.current without its rounding error
    gameSpeedErr,   \* the rounding error of gameSpeedRef.current, see RoundErr
    frameCount,     \* frameCountRef.current
    cycle,          \* cycleRef.current * 3000
    score,          \* scoreRef.current * SCORE_DEN
    currentScore,   \* React state currentScore
    isNewRecord,    \* React state isNewRecord
    highScore,      \* App state highScore
    localStorage,   \* the item 'runner-highscore' of localStorage, see NoItem
    highScoreRef,   \* highScoreRef.current: the highScore prop of the last
                    \* render whose effects have run
    onGameOverRef,  \* onGameOverRef.current: the handleGameOver of that
                    \* render, given by the highScore its closure holds
    lastTimeRef,    \* lastTimeRef.current, see NeverTicked
    requestRef,     \* requestRef.current and the frame requests, see Requested
    mounted,        \* GameCanvas is mounted: its effect cleanups have not run
    drawn,          \* what the latest call of draw() did, see draw
    emitted,        \* the arguments of the onGameOver calls made by the last step
    op              \* the last operation: its kind, the status it found
                    \* (from), the dt of the latest tick and the time that
                    \* had passed since the callback before it (elapsed)

vars == <<status, displayStatus, player, obstacles, clouds, particles, gameSpeed, gameSpeedErr,
          frameCount, cycle, score, currentScore, isNewRecord, highScore,
          localStorage, highScoreRef, onGameOverRef, lastTimeRef, requestRef, mounted,
          drawn, emitted, op>>

----------------------------------------------------------------------------
\* Units

PX == 10 * 10 * 10          \* one pixel, in model length units

----------------------------------------------------------------------------
\* Program constants (src/App.tsx 56-71, src/components/GameCanvas.tsx 25)

CANVAS_WIDTH  == 800 * PX
CANVAS_HEIGHT == 400 * PX
GROUND_Y      == 350 * PX
GRAVITY       == 600        \* 0.6 px per frame^2
JUMP_FORCE    == -12000     \* -12 px per frame
INITIAL_SPEED == 6000       \* 6 px per frame
MAX_SPEED     == 15000      \* 15 px per frame
SPEED_INCREMENT == 1        \* 0.001 px per frame, per frame
PLAYER_WIDTH  == 44 * PX
PLAYER_HEIGHT == 80 * PX
PLAYER_START_X == 50 * PX
OBSTACLE_SPAWN_MIN_GAP == 300 * PX
OBSTACLE_SPAWN_MAX_GAP == 700 * PX
MAX_PARTICLES == 60
CYCLE_PERIOD  == 3000       \* the 3000 of update(), line 223
MAX_DT        == 4          \* the clamp of loop(), line 740
LEFT_MARGIN   == -100 * PX  \* the -100 of update(), lines 266, 281
LIFE_ONE      == 10000      \* life 1.0

\* score unit: 1 point = 10 * INITIAL_SPEED units (the 0.1 and the division
\* by INITIAL_SPEED of line 249)
SCORE_DEN == 10 * INITIAL_SPEED

\* Math.floor(scoreRef.current)
FloorScore(s) == s \div SCORE_DEN

GroundLevel == GROUND_Y - PLAYER_HEIGHT

Min2(a, b) == IF a <= b THEN a ELSE b

----------------------------------------------------------------------------
\* Particle pool

\* the pool is the sequence of its slots; slot i of the model is
\* particlesRef.current[i - 1]
Slots == 1 .. MAX_PARTICLES

\* a slot as created at line 60.  A deactivated slot is written back as this
\* record: the program leaves stale fields in an inactive slot, but nothing
\* reads them (spawnParticles overwrites every field, update() and draw()
\* test active first), so inactive slots are kept in one canonical form.
IdleParticle ==
    [x |-> 0, y |-> 0, vx |-> 0, vy |-> 0, life |-> 0, decay |-> 0,
     size |-> 0, color |-> "#000", active |-> FALSE]

\* particlesRef as constructed (lines 57-62)
InitialPool == [i \in Slots |-> IdleParticle]

\* the fields spawnParticles gives a slot (lines 96-104); pd holds the four
\* Math.random() values of lines 99, 100, 102, 103 in hundredths
NewParticle(x, y, type, pd) ==
    [x |-> x, y |-> y,
     vx |-> (pd.vx - 50) * (IF type = "impact" THEN 5 ELSE 2) * 10,
     vy |-> (pd.vy - 100) * (IF type = "impact" THEN 5 ELSE 2) * 10,
     life |-> LIFE_ONE,
     decay |-> 200 + 3 * pd.decay,
     size |-> IF type = "impact" THEN 3 * PX + 30 * pd.size
                                 ELSE 2 * PX + 20 * pd.size,
     color |-> IF type = "impact" THEN "#94a3b8" ELSE "#cbd5e1",
     active |-> TRUE]

RECURSIVE ScanEnd(_, _, _, _)
\* the loop of spawnParticles (lines 92-107) from slot i on, spawnedCount
\* slots having been activated so far: the last slot the loop activates
\* (0 when it activates none)
ScanEnd(pool, i, spawnedCount, count) ==
    IF i > Len(pool) \/ spawnedCount >= count THEN i - 1
    ELSE IF ~pool[i].active
         THEN IF spawnedCount + 1 >= count THEN i
              ELSE ScanEnd(pool, i + 1, spawnedCount + 1, count)
         ELSE ScanEnd(pool, i + 1, spawnedCount, count)

\* the pool after the loop has activated every inactive slot up to slot last
Activate(pool, last, np) ==
    [i \in 1 .. Len(pool) |->
        IF i <= last /\ ~pool[i].active THEN np ELSE pool[i]]

\* a spawn that grows the pool instead of reusing its inactive slots
spawnParticles_Push(pool, x, y, count, type, pd) ==
    pool \o [i \in 1 .. count |-> NewParticle(x, y, type, pd)]

\* a spawn that does not count what it activates: every inactive slot is taken
spawnParticles_Uncounted(pool, x, y, count, type, pd) ==
    Activate(pool, Len(pool), NewParticle(x, y, type, pd))

\* spawnParticles (lines 90-108): scan the pool in index order and activate
\* inactive slots until count have been activated or the pool is exhausted.
\* The particles of one call share the random values pd.
spawnParticles(pool, x, y, count, type, pd) ==
    Activate(pool, ScanEnd(pool, 1, 0, count), NewParticle(x, y, type, pd))

\* a particle step that never deactivates the slot
StepParticle_Undying(p, speed, dt) ==
    IF ~p.active THEN p
    ELSE [p EXCEPT !.x = p.x - speed * dt + p.vx * dt,
                   !.y = p.y + p.vy * dt,
                   !.life = p.life - p.decay * dt]

\* one particle's step in update() (lines 293-301)
StepParticle(p, speed, dt) ==
    IF ~p.active THEN p
    ELSE IF p.life - p.decay * dt <= 0 THEN IdleParticle
    ELSE [p EXCEPT !.x = p.x - speed * dt + p.vx * dt,
                   !.y = p.y + p.vy * dt,
                   !.life = p.life - p.decay * dt]

\* the particle loop of update() (lines 291-302)
StepParticles(pool, speed, dt) ==
    [i \in 1 .. Len(pool) |-> StepParticle(pool[i], speed, dt)]

----------------------------------------------------------------------------
\* Obstacles and clouds

\* a choice of variant that forgets the score gate of the bird
ObstacleShape_Ungated(sc, d) ==
    IF d.r > 82 THEN
        [type |-> "BIRD", width |-> 40 * PX, height |-> 30 * PX,
         y |-> IF d.high > 50 THEN GROUND_Y - PLAYER_HEIGHT - 10 * PX
                              ELSE GROUND_Y - 50 * PX]
    ELSE
        [type |-> "BONSAI_SMALL",
         width |-> 35 * (850 + 4 * d.scale),
         height |-> 45 * (850 + 4 * d.scale),
         y |-> GROUND_Y - 45 * (850 + 4 * d.scale)]

\* spawnObstacle's choice of variant and geometry (lines 111-155).  sc is
\* scoreRef.current; d.r, d.scale, d.high are the Math.random() values of
\* lines 111, 144/151 and 131 in hundredths.  The id field (line 158) is
\* never read and is left out.
ObstacleShape(sc, d) ==
    LET canSpawnTorii == sc > 300 * SCORE_DEN
        isTorii == canSpawnTorii /\ d.r > 96
    IN  IF isTorii THEN
            [type |-> "TORII", width |-> 50 * PX, height |-> 65 * PX,
             y |-> GROUND_Y - 65 * PX]
        ELSE IF sc > 150 * SCORE_DEN /\ d.r > 82 THEN
            [type |-> "BIRD", width |-> 40 * PX, height |-> 30 * PX,
             y |-> IF d.high > 50 THEN GROUND_Y - PLAYER_HEIGHT - 10 * PX
                                  ELSE GROUND_Y - 50 * PX]
        ELSE IF d.r > 88 THEN
            [type |-> "ROCK", width |-> 40 * PX, height |-> 25 * PX,
             y |-> GROUND_Y - 25 * PX]
        ELSE IF d.r > 50 THEN
            [type |-> "BONSAI_LARGE",
             width |-> 45 * (850 + 4 * d.scale),
             height |-> 65 * (850 + 4 * d.scale),
             y |-> GROUND_Y - 65 * (850 + 4 * d.scale)]
        ELSE
            [type |-> "BONSAI_SMALL",
             width |-> 35 * (850 + 4 * d.scale),
             height |-> 45 * (850 + 4 * d.scale),
             y |-> GROUND_Y - 45 * (850 + 4 * d.scale)]

\* spawnObstacle putting the new obstacle at the front of the list
spawnObstacle_Front(obs, sc, d) ==
    LET sh == ObstacleShape(sc, d)
    IN  <<[x |-> CANVAS_WIDTH + d.xoff * PX, y |-> sh.y,
           width |-> sh.width, height |-> sh.height,
           type |-> sh.type]>> \o obs

\* spawnObstacle (lines 110-166): the new obstacle is appended
\* (d.xoff is the Math.random() of line 159)
spawnObstacle(obs, sc, d) ==
    LET sh == ObstacleShape(sc, d)
    IN  Append(obs, [x |-> CANVAS_WIDTH + d.xoff * PX, y |-> sh.y,
                     width |-> sh.width, height |-> sh.height,
                     type |-> sh.type])

\* a spawn test that ignores the distance to the last obstacle
ShouldSpawn_Always(obs, d) == TRUE

\* the spawn test of update() (lines 255-258); d.gap is the Math.random()
\* of line 256
ShouldSpawn(obs, d) ==
    \/ Len(obs) = 0
    \/ CANVAS_WIDTH - obs[Len(obs)].x
           > OBSTACLE_SPAWN_MIN_GAP + (OBSTACLE_SPAWN_MAX_GAP \div 100) * d.gap

\* an obstacle loop that moves the obstacles and never shortens the list
MoveObstacles_KeepAll(obs, speed, dt) ==
    [i \in 1 .. Len(obs) |-> [obs[i] EXCEPT !.x = @ - speed * dt]]

\* the obstacle loop of update() (lines 261-273): move every obstacle left by
\* gameSpeed * dt and compact the survivors in place, keeping their order
MoveObstacles(obs, speed, dt) ==
    SelectSeq([i \in 1 .. Len(obs) |-> [obs[i] EXCEPT !.x = @ - speed * dt]],
              LAMBDA o : o.x + o.width > LEFT_MARGIN)

\* spawnCloud (lines 168-177); d.cy, d.cspeed, d.cscale are the Math.random()
\* values of lines 172-174
spawnCloud(cl, d) ==
    Append(cl, [x |-> CANVAS_WIDTH,
                y |-> (CANVAS_HEIGHT \div 200) * d.cy,
                speed |-> 500 + 10 * d.cspeed,
                scale |-> 500 + 8 * d.cscale])

\* the cloud loop of update() (lines 277-288)
MoveClouds(cl, dt) ==
    SelectSeq([i \in 1 .. Len(cl) |-> [cl[i] EXCEPT !.x = @ - cl[i].speed * dt]],
              LAMBDA c : c.x > LEFT_MARGIN)

----------------------------------------------------------------------------
\* Collision detection

\* playerHitbox (lines 305-311)
PlayerHitbox(p) ==
    [x |-> p.x + 8 * PX, y |-> p.y + 8 * PX,
     width |-> PLAYER_WIDTH - 16 * PX, height |-> PLAYER_HEIGHT - 16 * PX]

\* an obstacle box that is only the strip of the obstacle on the ground, too
\* low for the player's inset box
ObstacleHitbox_Flat(o) ==
    [x |-> o.x + 4 * PX, y |-> o.y + o.height - 4 * PX,
     width |-> o.width - 8 * PX, height |-> 4 * PX]

\* obsHitbox (lines 314-343)
ObstacleHitbox(o) ==
    IF o.type = "BIRD" THEN
        [x |-> o.x + 2 * PX, y |-> o.y + 10 * PX,
         width |-> o.width - 4 * PX, height |-> o.height - 14 * PX]
    ELSE IF o.type = "ROCK" THEN
        [x |-> o.x + 2 * PX, y |-> o.y + 2 * PX,
         width |-> o.width - 4 * PX, height |-> o.height - 4 * PX]
    ELSE IF o.type = "TORII" THEN
        [x |-> o.x + 10 * PX, y |-> o.y + 2 * PX,
         width |-> o.width - 20 * PX, height |-> o.height - 4 * PX]
    ELSE
        [x |-> o.x + 4 * PX, y |-> o.y + 4 * PX,
         width |-> o.width - 8 * PX, height |-> o.height - 8 * PX]

\* the overlap test that also accepts boxes that only touch
Overlap_Touching(a, b) ==
    /\ a.x <= b.x + b.width
    /\ a.x + a.width >= b.x
    /\ a.y <= b.y + b.height
    /\ a.y + a.height >= b.y

\* the overlap test (lines 345-350)
Overlap(a, b) ==
    /\ a.x < b.x + b.width
    /\ a.x + a.width > b.x
    /\ a.y < b.y + b.height
    /\ a.y + a.height > b.y

Hits(p, o) == Overlap(PlayerHitbox(p), ObstacleHitbox(o))

\* a handleGameOver that stores every final score
handleGameOver_Overwrite(hs, cur, s) == s

\* App.handleGameOver (src/App.tsx 14-19) called with score s: hs is the
\* highScore the closure holds, cur the App state; the result is the App
\* state after the call
handleGameOver(hs, cur, s) == IF s > hs THEN s ELSE cur

\* localStorage holds strings; the item is kept as the sequence of its
\* characters, which are decimal digits, and an item that was never set as
\* the empty sequence
NoItem == <<>>

RECURSIVE toString(_)
\* score.toString() (src/App.tsx 17) of a non-negative integer: its decimal
\* digits, no sign, no leading zero
toString(n) ==
    IF n < 10 THEN <<n>> ELSE Append(toString(n \div 10), n % 10)

\* the item after handleGameOver (src/App.tsx 14-19) was called with score
\* s by the closure that holds highScore hs: localStorage.setItem (line 17)
setItem(hs, item, s) == IF s > hs THEN toString(s) ELSE item

\* the hit handling with the high score and the callback of the first
\* render, as a loop that captured them when it was started would use
OnHit_Captured(acc, p, sc, refs, pd) ==
    LET finalScore == FloorScore(sc)
    IN  [status |-> "GAME_OVER",
         isNewRecord |-> finalScore > 0,
         emitted |-> Append(acc.emitted, finalScore),
         highScore |-> handleGameOver(0, acc.highScore, finalScore),
         localStorage |-> setItem(0, acc.localStorage, finalScore),
         particles |-> acc.particles]

\* the hit handling that rounds the final score up instead of down
OnHit_RoundUp(acc, p, sc, refs, pd) ==
    [acc EXCEPT !.status = "GAME_OVER",
                !.emitted = Append(acc.emitted, FloorScore(sc) + 1)]

\* the hit handling with the status left at START instead of GAME_OVER
OnHit_ToStart(acc, p, sc, refs, pd) ==
    [acc EXCEPT !.status = "START",
                !.emitted = Append(acc.emitted, FloorScore(sc))]

\* the hit handling with the status assignment left out
OnHit_KeepStatus(acc, p, sc, refs, pd) ==
    [acc EXCEPT !.emitted = Append(acc.emitted, FloorScore(sc))]

\* the hit handling that takes a final score equal to the high score for a
\* new record
OnHit_OrEqual(acc, p, sc, refs, pd) ==
    LET finalScore == FloorScore(sc)
    IN  [status |-> "GAME_OVER",
         isNewRecord |-> finalScore >= refs.highScore,
         emitted |-> Append(acc.emitted, finalScore),
         highScore |-> handleGameOver(refs.onGameOver, acc.highScore,
                                      finalScore),
         localStorage |-> setItem(refs.onGameOver, acc.localStorage,
                                  finalScore),
         particles |-> spawnParticles(acc.particles,
                                      p.x + PLAYER_WIDTH \div 2,
                                      p.y + PLAYER_HEIGHT \div 2,
                                      20, "impact", pd)]

\* what one pass of the body of the collision loop does on a hit (lines
\* 351-362) to acc = [status, isNewRecord, emitted, highScore, localStorage,
\* particles];
\* refs holds highScoreRef.current and onGameOverRef.current, which no code
\* changes during the tick
OnHit(acc, p, sc, refs, pd) ==
    LET finalScore == FloorScore(sc)
    IN  [status |-> "GAME_OVER",
         isNewRecord |-> finalScore > refs.highScore,
         emitted |-> Append(acc.emitted, finalScore),
         highScore |-> handleGameOver(refs.onGameOver, acc.highScore,
                                      finalScore),
         localStorage |-> setItem(refs.onGameOver, acc.localStorage,
                                  finalScore),
         particles |-> spawnParticles(acc.particles,
                                      p.x + PLAYER_WIDTH \div 2,
                                      p.y + PLAYER_HEIGHT \div 2,
                                      20, "impact", pd)]

RECURSIVE CollisionLoop(_, _, _, _, _, _, _)
\* the collision loop (lines 313-364) from obstacle i on: every obstacle is
\* tested, in order; the loop has no break
CollisionLoop(obs, i, acc, p, sc, refs, pd) ==
    IF i > Len(obs) THEN acc
    ELSE CollisionLoop(obs, i + 1,
                       IF Hits(p, obs[i]) THEN OnHit(acc, p, sc, refs, pd)
                                          ELSE acc,
                       p, sc, refs, pd)

----------------------------------------------------------------------------
\* The steps of update()

\* the player as created at lines 47-53 and 192-198
StartPlayer ==
    [x |-> PLAYER_START_X, y |-> GroundLevel, vy |-> 0,
     isJumping |-> FALSE, frame |-> 0]

\* the physics step (lines 226-227): the player before the ground test
Integrate(p, dt) ==
    LET vy1 == p.vy + GRAVITY * dt
    IN  [p EXCEPT !.vy = vy1, !.y = p.y + vy1 * dt]

\* the ground test (line 230) on the integrated player
OnGround(q) == q.y >= GroundLevel

\* a landing that leaves the jump flag set
Land_KeepJumping(q) ==
    IF OnGround(q)
    THEN [q EXCEPT !.y = GroundLevel, !.vy = 0]
    ELSE q

\* a landing that forgets to put the player back on the ground line
Land_NoSnap(q) ==
    IF OnGround(q)
    THEN [q EXCEPT !.vy = 0, !.isJumping = FALSE]
    ELSE q

\* the player after the ground collision block (lines 230-236)
Land(q) ==
    IF OnGround(q)
    THEN [q EXCEPT !.y = GroundLevel, !.vy = 0, !.isJumping = FALSE]
    ELSE q

\* the ground dust with the landing burst on every tick spent on the ground
GroundDust_EveryContact(pool, p, q, frame1, pd) ==
    CHOOSE pool2 \in
        {IF OnGround(q) /\ frame1 % 8 = 0
         THEN spawnParticles(pool1, p.x + 10 * PX, GROUND_Y, 2, "dust", pd)
         ELSE pool1 :
            pool1 \in {IF OnGround(q)
                       THEN spawnParticles(pool, p.x + PLAYER_WIDTH \div 2,
                                           GROUND_Y, 8, "dust", pd)
                       ELSE pool}} : TRUE

\* the dust of the ground collision block (lines 231-233, 238-240): landing
\* dust when the player was jumping, running dust on every 8th frame; the
\* pool between the two calls is bound once
GroundDust(pool, p, q, frame1, pd) ==
    CHOOSE pool2 \in
        {IF OnGround(q) /\ frame1 % 8 = 0
         THEN spawnParticles(pool1, p.x + 10 * PX, GROUND_Y, 2, "dust", pd)
         ELSE pool1 :
            pool1 \in {IF OnGround(q) /\ p.isJumping
                       THEN spawnParticles(pool, p.x + PLAYER_WIDTH \div 2,
                                           GROUND_Y, 8, "dust", pd)
                       ELSE pool}} : TRUE

\* Rounding of the speed.  gameSpeedRef.current is an IEEE double and
\* SPEED_INCREMENT = 0.001 is not one exactly, so line 245 rounds twice: the
\* product 0.001 * dt and the sum.  The double is
\*     gameSpeed / 1000 + gameSpeedErr / (125 * 2^50),
\* for between 4 and 8 a double is a multiple of 2^-50 and between 8 and 16
\* of 2^-49, and 1/1000 = 2^47 / (125 * 2^50).  The double nearest to
\* 0.001 * dt is inc(dt) * 2^-50 with inc(1) = 1125899906842.624,
\* inc(2) = 2 * inc(1), inc(4) = 4 * inc(1), inc(3) = 3377699720527.872.
\* Adding it to a double s * 2^-50 gives s + inc(dt) rounded to the nearest
\* multiple of 1 (sum below 8) or of 2 (sum from 8 on); the error grows by
\* 125 * (the rounded step) - dt * 2^47, which is one of the small numbers
\* below.

\* sum below 8: the step is inc(dt) rounded to a whole number
ErrStepLow == <<47, -31, 16, -62>>

\* sum from 8 on, s even: the step is inc(dt) rounded to an even number
ErrStepHigh == <<-78, 94, 16, -62>>

\* sum from 8 on, s odd (the first sum that reaches 8): the step is
\* inc(dt) + 1 rounded to an even number, less 1
ErrStepHighOdd == <<47, -31, -109, 63>>

\* the speed from which the doubles are half as dense, 8 px per frame
BINADE == 8 * PX

\* gameSpeedRef.current < MAX_SPEED (line 244), on the double
BelowMax(speed, err) ==
    speed < MAX_SPEED \/ (speed = MAX_SPEED /\ err < 0)

\* the rounding error of gameSpeedRef.current after line 245; s is odd
\* exactly if err is, as err = 125 * s - gameSpeed * 2^47
RoundErr(speed, err, dt) ==
    IF dt = 0 THEN err
    ELSE IF speed + SPEED_INCREMENT * dt < BINADE
            \/ (speed + SPEED_INCREMENT * dt = BINADE
                   /\ err + ErrStepLow[dt] < 0)
         THEN err + ErrStepLow[dt]
    ELSE IF err % 2 = 0 THEN err + ErrStepHigh[dt]
    ELSE err + ErrStepHighOdd[dt]

\* the speed progression with the sign of the increment wrong
NextSpeed_Down(speed, err, dt) ==
    IF BelowMax(speed, err) THEN speed - SPEED_INCREMENT * dt ELSE speed

\* speed progression (lines 244-246)
NextSpeed(speed, err, dt) ==
    IF BelowMax(speed, err) THEN speed + SPEED_INCREMENT * dt ELSE speed

\* the rounding error that goes with NextSpeed
NextSpeedErr(speed, err, dt) ==
    IF BelowMax(speed, err) THEN RoundErr(speed, err, dt) ELSE err

\* the score accrual with the sign wrong
NextScore_Minus(sc, speed1, dt) == sc - speed1 * dt

\* score accrual (line 249), from the speed already advanced
NextScore(sc, speed1, dt) == sc + speed1 * dt

\* setCurrentScore (lines 250-252).  update() is the closure of the first
\* render (the loop re-schedules itself), so the currentScore it compares
\* with is the initial 0.
NextCurrentScore(cur, sc1) ==
    IF FloorScore(sc1) > 0 THEN FloorScore(sc1) ELSE cur

\* update() without its early return
Running_Always == TRUE

\* the guard of update() (line 218)
Running == status = "PLAYING"

\* update(dt) (lines 217-365).  Each intermediate value of the function body
\* is bound once, in the order the code computes it.  d holds the Math.random() values the call
\* consumes, in hundredths: gap (256), r, scale, high, xoff (spawnObstacle),
\* cloud (276), cy, cspeed, cscale (spawnCloud), pd (spawnParticles).
update(dt, d) ==
    IF ~Running THEN
        /\ UNCHANGED <<status, displayStatus, player, obstacles, clouds,
                       particles, gameSpeed, gameSpeedErr, frameCount, cycle, score,
                       currentScore, isNewRecord, highScore, localStorage>>
        /\ emitted' = <<>>
    ELSE
        \E frame1 \in {frameCount + dt},
           q \in {Integrate(player, dt)},
           speed1 \in {NextSpeed(gameSpeed, gameSpeedErr, dt)} :
        \E score1 \in {NextScore(score, speed1, dt)},
           pool1 \in {GroundDust(particles, player, q, frame1, d.pd)} :
        \E obs1 \in {IF ShouldSpawn(obstacles, d)
                     THEN spawnObstacle(obstacles, score1, d)
                     ELSE obstacles},
           cl1 \in {IF d.cloud < dt THEN spawnCloud(clouds, d) ELSE clouds},
           pool2 \in {StepParticles(pool1, speed1, dt)} :
        \E obs2 \in {MoveObstacles(obs1, speed1, dt)} :
        \E acc \in {CollisionLoop(obs2, 1,
                        [status |-> status, isNewRecord |-> isNewRecord,
                         emitted |-> <<>>, highScore |-> highScore,
                         localStorage |-> localStorage,
                         particles |-> pool2],
                        Land(q), score1,
                        [highScore |-> highScoreRef,
                         onGameOver |-> onGameOverRef], d.pd)} :
            /\ frameCount' = frame1
            /\ cycle' = frame1 % CYCLE_PERIOD
            /\ player' = Land(q)
            /\ gameSpeed' = speed1
            /\ gameSpeedErr' = NextSpeedErr(gameSpeed, gameSpeedErr, dt)
            /\ score' = score1
            /\ currentScore' = NextCurrentScore(currentScore, score1)
            /\ obstacles' = obs2
            /\ clouds' = MoveClouds(cl1, dt)
            /\ status' = acc.status
            /\ displayStatus' = acc.status
            /\ isNewRecord' = acc.isNewRecord
            /\ emitted' = acc.emitted
            /\ highScore' = acc.highScore
            /\ localStorage' = acc.localStorage
            /\ particles' = acc.particles

\* resetGame with the clearing of the cloud list left out
resetGame_KeepClouds ==
    /\ status' = "PLAYING"
    /\ displayStatus' = "PLAYING"
    /\ score' = 0
    /\ currentScore' = 0
    /\ isNewRecord' = FALSE
    /\ gameSpeed' = INITIAL_SPEED
    /\ gameSpeedErr' = 0
    /\ obstacles' = <<>>
    /\ particles' = [i \in 1 .. Len(particles) |-> IdleParticle]
    /\ player' = StartPlayer
    /\ frameCount' = 0
    /\ UNCHANGED <<clouds, cycle, highScore, localStorage>>

\* resetGame (lines 179-200).  cycleRef is not among the fields it resets.
resetGame ==
    /\ status' = "PLAYING"
    /\ displayStatus' = "PLAYING"
    /\ score' = 0
    /\ currentScore' = 0
    /\ isNewRecord' = FALSE
    /\ gameSpeed' = INITIAL_SPEED
    /\ gameSpeedErr' = 0
    /\ obstacles' = <<>>
    /\ clouds' = <<>>
    /\ particles' = [i \in 1 .. Len(particles) |-> IdleParticle]
    /\ player' = StartPlayer
    /\ frameCount' = 0
    /\ UNCHANGED <<cycle, highScore, localStorage>>

\* the jump with the impulse pointing down
Impulse_Down(p) == [p EXCEPT !.vy = -JUMP_FORCE, !.isJumping = TRUE]

\* the jump proper (lines 210-214): the player after an accepted jump
Impulse(p) == [p EXCEPT !.vy = JUMP_FORCE, !.isJumping = TRUE]

\* a jump accepted in mid-air too
CanJump_Always(p) == TRUE

\* the test of line 210
CanJump(p) == ~p.isJumping

\* jump() (lines 202-215); pd are the Math.random() values of the jump dust
jump(pd) ==
    IF status # "PLAYING" THEN
        IF status = "START" \/ status = "GAME_OVER"
        THEN resetGame
        ELSE UNCHANGED <<status, displayStatus, player, obstacles, clouds,
                         particles, gameSpeed, gameSpeedErr, frameCount, cycle, score,
                         currentScore, isNewRecord, highScore, localStorage>>
    ELSE IF CanJump(player) THEN
        /\ player' = Impulse(player)
        /\ particles' = spawnParticles(particles,
                                       player.x + PLAYER_WIDTH \div 2,
                                       player.y + PLAYER_HEIGHT, 5, "dust", pd)
        /\ UNCHANGED <<status, displayStatus, obstacles, clouds, gameSpeed, gameSpeedErr,
                       frameCount, cycle, score, currentScore, isNewRecord,
                       highScore, localStorage>>
    ELSE
        UNCHANGED <<status, displayStatus, player, obstacles, clouds,
                    particles, gameSpeed, gameSpeedErr, frameCount, cycle, score,
                    currentScore, isNewRecord, highScore, localStorage>>

----------------------------------------------------------------------------
\* The animation loop (lines 733-750)

\* Time is counted in nominal frames (FRAME_TIME, line 27), so deltaTime /
\* FRAME_TIME is deltaTime.  Timestamps are positive and loop() uses only
\* their differences and the test lastTimeRef.current === 0, so the model
\* keeps of lastTimeRef.current whether it was ever assigned (set) and how
\* far it lies behind the timestamp of the latest callback (behind).

\* lastTimeRef.current as constructed (line 33): 0, no callback yet
NeverTicked == [set |-> FALSE, behind |-> 0]

\* deltaTime (lines 734-737) of a callback that arrives e frames after the
\* callback before it: the first callback measures from its own timestamp
deltaTime(last, e) == IF last.set THEN last.behind + e ELSE 0

ClampDt_Unclamped(delta) == delta

\* dt = Math.min(deltaTime / FRAME_TIME, 4) (line 740)
ClampDt(delta) == Min2(delta, MAX_DT)

\* lastTimeRef.current = time (line 738), on every callback
Stamp(last, e) == [set |-> TRUE, behind |-> 0]

\* The frame requests.  pending: the request whose handle requestRef.current
\* holds has neither fired nor been cancelled; orphans: the number of pending
\* requests whose handle requestRef.current does not hold.

\* after the effect of line 748 ran at mount
Requested == [pending |-> TRUE, orphans |-> 0]

\* the browser runs the callback of one pending request
Fired(r) ==
    {[r EXCEPT !.pending = FALSE] : x \in IF r.pending THEN {0} ELSE {}}
        \cup {[r EXCEPT !.orphans = @ - 1] :
                  x \in IF r.orphans > 0 THEN {0} ELSE {}}

\* requestRef.current = requestAnimationFrame(loop) (line 744): a request
\* still pending under the old handle is no longer reachable
Schedule(r) ==
    [pending |-> TRUE, orphans |-> r.orphans + IF r.pending THEN 1 ELSE 0]

Cancel_Nothing(r) == r

\* cancelAnimationFrame(requestRef.current) (line 749)
Cancel(r) == [r EXCEPT !.pending = FALSE]

----------------------------------------------------------------------------
\* Rendering (lines 367-731)

\* colours as <<red, green, blue>>: '#38bdf8', '#fdba74', '#0f172a'
DAY   == <<56, 189, 248>>
DUSK  == <<253, 186, 116>>
NIGHT == <<15, 23, 42>>

\* lerpColor (lines 368-377) with amount = num / den: each channel is
\* a + amount * (b - a) and the shifts and the | 0 drop its fraction
lerpColor(a, b, num, den) ==
    [i \in 1 .. 3 |-> a[i] + (num * (b[i] - a[i])) \div den]

\* the sky with the ramp from night to day left out
getSkyColor_NoDawn(c) ==
    IF c < 900 THEN DAY
    ELSE IF c < 1200 THEN lerpColor(DAY, DUSK, c - 900, 300)
    ELSE IF c < 1500 THEN lerpColor(DUSK, NIGHT, c - 1200, 300)
    ELSE NIGHT

\* getSkyColor(t) (lines 379-385) for t = c / CYCLE_PERIOD: the bounds 0.3,
\* 0.4, 0.5, 0.9 are c = 900, 1200, 1500, 2700 and (t - 0.3) * 10 is
\* (c - 900) / 300
getSkyColor(c) ==
    IF c < 900 THEN DAY
    ELSE IF c < 1200 THEN lerpColor(DAY, DUSK, c - 900, 300)
    ELSE IF c < 1500 THEN lerpColor(DUSK, NIGHT, c - 1200, 300)
    ELSE IF c < 2700 THEN NIGHT
    ELSE lerpColor(NIGHT, DAY, c - 2700, 300)

\* what draw() reads
World ==
    [cycle |-> cycle, clouds |-> clouds, obstacles |-> obstacles,
     particles |-> particles, player |-> player, frameCount |-> frameCount]

\* draw() failing when the surface is missing
draw_Throws(w, surface) ==
    [painted |-> surface, threw |-> ~surface, world |-> w,
     sky |-> IF surface THEN getSkyColor(w.cycle) ELSE <<>>,
     stars |-> surface /\ w.cycle > 1350 /\ w.cycle < 2850]

\* draw() ageing the particles it paints
draw_Ageing(w, surface) ==
    [painted |-> surface, threw |-> FALSE,
     world |-> [w EXCEPT !.particles =
                   [i \in DOMAIN @ |-> [@[i] EXCEPT !.life = @ - 1]]],
     sky |-> IF surface THEN getSkyColor(w.cycle) ELSE <<>>,
     stars |-> surface /\ w.cycle > 1350 /\ w.cycle < 2850]

\* draw() (lines 664-731) on the refs w: without a canvas or a 2D context it
\* returns at once (665-668); otherwise it paints the sky of the phase, the
\* stars while 0.45 < phase < 0.95, then clouds, ground, obstacles, active
\* particles and the player, reading the refs and assigning to none.  The
\* result tells whether it painted, whether it threw, the sky and the stars
\* it painted, and the refs as it leaves them.
draw(w, surface) ==
    [painted |-> surface, threw |-> FALSE, world |-> w,
     sky |-> IF surface THEN getSkyColor(w.cycle) ELSE <<>>,
     stars |-> surface /\ w.cycle > 1350 /\ w.cycle < 2850]

----------------------------------------------------------------------------
\* Initial state and operations

\* the refs and React state as constructed (lines 32-72; src/App.tsx 5)
Init ==
    /\ status = "START"
    /\ displayStatus = "START"
    /\ player = StartPlayer
    /\ obstacles = <<>>
    /\ clouds = <<>>
    /\ particles = InitialPool
    /\ gameSpeed = INITIAL_SPEED
    /\ gameSpeedErr = 0
    /\ frameCount = 0
    /\ cycle = 0
    /\ score = 0
    /\ currentScore = 0
    /\ isNewRecord = FALSE
    /\ highScore = 0
    /\ localStorage = NoItem
    /\ highScoreRef = 0
    /\ onGameOverRef = 0
    /\ emitted = <<>>
    /\ lastTimeRef = NeverTicked
    /\ requestRef = Requested
    /\ mounted = TRUE
    /\ drawn = [painted |-> FALSE, sky |-> <<>>, stars |-> FALSE,
                kept |-> TRUE]
    /\ op = [kind |-> "init", dt |-> 0, elapsed |-> 0, from |-> "START",
             air |-> FALSE]

\* one callback of loop() (lines 733-745), arriving e nominal frames after
\* the callback before it: a pending frame request fires, dt is computed from
\* the timestamps, update(dt) runs, the next frame is requested; draw() reads
\* the state.  If draw() threw, the callback would end there.  The variables
\* after the callback are those update() left; drawn.kept tells whether
\* draw() left them so.
Tick(e, d) ==
    \E r \in Fired(requestRef), dt \in {ClampDt(deltaTime(lastTimeRef, e))} :
        /\ update(dt, d)
        /\ lastTimeRef' = Stamp(lastTimeRef, e)
        /\ \E f \in {draw(World', d.surface)} :
              /\ drawn' = [painted |-> f.painted, sky |-> f.sky,
                           stars |-> f.stars, kept |-> f.world = World']
              /\ requestRef' = IF f.threw THEN r ELSE Schedule(r)
        /\ UNCHANGED <<highScoreRef, onGameOverRef, mounted>>
        /\ op' = [kind |-> "tick", dt |-> dt, elapsed |-> e, from |-> status,
                  air |-> player.isJumping]

\* triggerJump(): the Space / ArrowUp key or a touch outside a button; the
\* listeners exist while GameCanvas is mounted (lines 752-774)
TriggerJump(pd) ==
    /\ mounted
    /\ jump(pd)
    /\ UNCHANGED <<highScoreRef, onGameOverRef, lastTimeRef, requestRef,
                   mounted, drawn>>
    /\ emitted' = <<>>
    /\ op' = [kind |-> "jump", dt |-> op.dt, elapsed |-> op.elapsed,
              from |-> status, air |-> player.isJumping]

\* the JOUER / Rejouer buttons (lines 830, 860), rendered only while
\* displayStatus is START or GAME_OVER
ClickPlay ==
    /\ mounted
    /\ displayStatus # "PLAYING"
    /\ resetGame
    /\ UNCHANGED <<highScoreRef, onGameOverRef, lastTimeRef, requestRef,
                   mounted, drawn>>
    /\ emitted' = <<>>
    /\ op' = [kind |-> "click", dt |-> op.dt, elapsed |-> op.elapsed,
              from |-> status, air |-> player.isJumping]

\* the host has a highScore that the refs do not hold yet
RenderPending == highScoreRef # highScore \/ onGameOverRef # highScore

\* App renders again after setHighScore (src/App.tsx 16) and hands GameCanvas
\* the new highScore and a new handleGameOver; the effects of lines 37-43
\* store them in the refs
Render ==
    /\ mounted
    /\ RenderPending
    /\ highScoreRef' = highScore
    /\ onGameOverRef' = highScore
    /\ emitted' = <<>>
    /\ op' = [kind |-> "render", dt |-> op.dt, elapsed |-> op.elapsed,
              from |-> status, air |-> player.isJumping]
    /\ UNCHANGED <<status, displayStatus, player, obstacles, clouds,
                   particles, gameSpeed, gameSpeedErr, frameCount, cycle, score,
                   currentScore, isNewRecord, highScore, localStorage,
                   lastTimeRef,
                   requestRef, mounted, drawn>>

\* GameCanvas is torn down: the cleanup of the effect of lines 747-750
\* cancels the request whose handle requestRef holds, the cleanup of lines
\* 770-773 removes the listeners
Unmount ==
    /\ mounted
    /\ mounted' = FALSE
    /\ requestRef' = Cancel(requestRef)
    /\ emitted' = <<>>
    /\ op' = [kind |-> "unmount", dt |-> op.dt, elapsed |-> op.elapsed,
              from |-> status, air |-> player.isJumping]
    /\ UNCHANGED <<status, displayStatus, player, obstacles, clouds,
                   particles, gameSpeed, gameSpeedErr, frameCount, cycle, score,
                   currentScore, isNewRecord, highScore, localStorage,
                   highScoreRef,
                   onGameOverRef, lastTimeRef, drawn>>

----------------------------------------------------------------------------
\* Inputs and specifications

\* the Math.random() values one spawnParticles call draws: an average
\* sideways and upward velocity and the fastest decay
DustDraw == [vx |-> 50, vy |-> 50, decay |-> 99, size |-> 0]

\* the inputs of a callback: the values update() may draw (gap in G, variant
\* r in R, scale in S, bird height in H, x offset in X, cloud test in C) and
\* whether the canvas and its 2D context are there for draw() (surface)
Draws(G, R, S, H, X, C) ==
    [gap : G, r : R, scale : S, high : H, xoff : X, cloud : C,
     cy : {50}, cspeed : {50}, cscale : {50}, pd : {DustDraw},
     surface : {TRUE}]

\* the inputs D, each with and without a surface to draw on
WithSurface(D) == {[d EXCEPT !.surface = sf] : d \in D, sf \in BOOLEAN}

\* the times between two callbacks that the clamp leaves as they are
AllDt == 0 .. MAX_DT

\* a game is followed for MaxFrame nominal frames
MaxFrame == 136

\* The whole game at the slowest frame rate the clamp allows: while PLAYING
\* every callback arrives MAX_DT frames after the one before it (dt = MAX_DT,
\* but dt = 0 if it is the first callback); the variant draw selects a small
\* bonsai, a large bonsai or a rock (and the unlocked variants past their
\* gates), the cloud draw 0.03 spawns a cloud on every such tick.  A render
\* that is pending comes before the frames of the next game.
PlayTick ==
    \E d \in Draws({0}, {0, 60, 97}, {0}, {0}, {0}, {3}) :
        /\ status = "PLAYING"
        /\ ~RenderPending
        /\ frameCount + MAX_DT <= MaxFrame
        /\ Tick(MAX_DT, d)

\* a callback while the simulation is not running, any time in AllDt after
\* the one before it, with or without a surface to draw on
IdleTick ==
    \E e \in AllDt, d \in WithSurface(Draws({0}, {0}, {0}, {0}, {0}, {3})) :
        /\ status # "PLAYING"
        /\ Tick(e, d)

Next ==
    \/ PlayTick
    \/ IdleTick
    \/ TriggerJump(DustDraw)
    \/ ClickPlay
    \/ Render

Spec == Init /\ [][Next]_vars

\* a game is followed for MaxFrameRates frames when the frame rate varies
MaxFrameRates == 48

\* Every frame rate: a game runs at a steady rate, each callback arriving
\* the same time in 1..MAX_DT after the one before it; before its first frame
\* a callback with dt = 0 may follow each command (the first callback of
\* loop() has dt = 0, and so has one with the timestamp of the one before).
\* The cloud draw 0.03 spawns a cloud on the ticks with dt = MAX_DT.  The
\* surface may be missing on any callback.
RateTick ==
    \E e \in AllDt, d \in WithSurface(Draws({0}, {0, 60}, {0}, {0}, {0}, {3})) :
        /\ status = "PLAYING"
        /\ frameCount + e <= MaxFrameRates
        /\ frameCount = 0 \/ e = op.elapsed
        /\ e = 0 => op.kind # "tick"
        /\ Tick(e, d)

NextRates ==
    \/ RateTick
    \/ IdleTick
    \/ TriggerJump(DustDraw)
    \/ ClickPlay

SpecRates == Init /\ [][NextRates]_vars

\* the frame at which a game's speed reaches MAX_SPEED (lines 244-246)
SpeedCapFrame == (MAX_SPEED - INITIAL_SPEED) \div SPEED_INCREMENT

\* a long game is followed freely for LateFrames frames before and after
\* SpeedCapFrame
LateFrames == 8

PilotEnd == SpeedCapFrame - LateFrames

LateEnd == SpeedCapFrame + LateFrames

\* the draws of a long game: the widest gap, so that one obstacle is on
\* screen at a time, always a small bonsai, and no cloud
LongDraws == Draws({99}, {0}, {0}, {0}, {0}, {99})

\* an obstacle not yet behind the player that the next tick with dt = MAX_DT
\* brings to the player
ObstacleAhead ==
    \E i \in 1 .. Len(obstacles) :
        /\ obstacles[i].x + obstacles[i].width > player.x
        /\ obstacles[i].x - (gameSpeed + SPEED_INCREMENT * MAX_DT) * MAX_DT
              < player.x + PLAYER_WIDTH

\* the user of a long game presses the key to start it and whenever the
\* grounded player is about to run into an obstacle
Press ==
    \/ status = "START"
    \/ status = "PLAYING" /\ ~player.isJumping /\ ObstacleAhead

\* A long game at the slowest frame rate: until PilotEnd every callback
\* arrives with dt = MAX_DT and the key is pressed exactly when Press says
PilotJump ==
    /\ frameCount + MAX_DT <= PilotEnd
    /\ Press
    /\ TriggerJump(DustDraw)

PilotTick ==
    \E d \in LongDraws :
        /\ status = "PLAYING"
        /\ frameCount + MAX_DT <= PilotEnd
        /\ ~Press
        /\ Tick(MAX_DT, d)

\* after PilotEnd the frame rate varies between the nominal one and the
\* slowest, and the key is pressed at any time
LateTick ==
    \E dt \in {1, MAX_DT}, d \in LongDraws :
        /\ status = "PLAYING"
        /\ frameCount + MAX_DT > PilotEnd
        /\ frameCount + dt <= LateEnd
        /\ Tick(dt, d)

LateJump ==
    /\ status = "PLAYING"
    /\ frameCount + MAX_DT > PilotEnd
    /\ TriggerJump(DustDraw)

NextLong ==
    \/ PilotJump
    \/ PilotTick
    \/ LateTick
    \/ LateJump

SpecLong == Init /\ [][NextLong]_vars

\* a game is followed for MaxFrameSpawn frames when the spawn draws vary
MaxFrameSpawn == 160

\* Every spawn draw: at the slowest frame rate, with the key pressed exactly
\* when Press says, the gap draw and the x offset draw of each tick are the
\* smallest or the largest (so that an obstacle may spawn in any tick past
\* the minimum gap), the variant a small bonsai or a rock
SpawnTick ==
    \E d \in Draws({0, 99}, {0, 97}, {0}, {0}, {0, 99}, {99}) :
        /\ status = "PLAYING"
        /\ frameCount + MAX_DT <= MaxFrameSpawn
        /\ ~Press
        /\ Tick(MAX_DT, d)

NextSpawn ==
    \/ PilotJump
    \/ SpawnTick

SpecSpawn == Init /\ [][NextSpawn]_vars

\* a game through the score gates is followed for MaxFrameTour frames
MaxFrameTour == 3000

\* a cloud is drawn every CloudEvery frames of that game
CloudEvery == 256

\* the draws of a game through the score gates: the widest gap, the variant
\* draw 0.97, which asks for the rarest variant the score allows (a rock, a
\* bird past 150, a torii past 300), a bird at either height, and a cloud
\* every CloudEvery frames
TourDraws ==
    Draws({99}, {97}, {0}, {0, 99}, {0},
          {IF frameCount % CloudEvery = 0 THEN 0 ELSE 99})

\* an obstacle not yet behind the player that three ticks with dt = MAX_DT
\* bring to the player
ObstacleNear ==
    \E i \in 1 .. Len(obstacles) :
        /\ obstacles[i].x + obstacles[i].width > player.x
        /\ obstacles[i].x - 3 * (gameSpeed + SPEED_INCREMENT * MAX_DT) * MAX_DT
              < player.x + PLAYER_WIDTH

\* the user of that game presses the key to start it and, early enough to
\* be high above a bird or a torii, whenever an obstacle comes near
PressEarly ==
    \/ status = "START"
    \/ status = "PLAYING" /\ ~player.isJumping /\ ObstacleNear

TourJump ==
    /\ frameCount + MAX_DT <= MaxFrameTour
    /\ PressEarly
    /\ TriggerJump(DustDraw)

TourTick ==
    \E d \in TourDraws :
        /\ status = "PLAYING"
        /\ frameCount + MAX_DT <= MaxFrameTour
        /\ ~PressEarly
        /\ Tick(MAX_DT, d)

NextTour ==
    \/ TourJump
    \/ TourTick

SpecTour == Init /\ [][NextTour]_vars

\* the longest time between two callbacks, in nominal frames
MaxElapsed == 6

\* a game is followed for MaxFrameLoop frames when the timestamps vary
MaxFrameLoop == 8

\* the times between two callbacks: none, one frame, the clamp, the longest
Elapsed == {0, 1, MAX_DT, MaxElapsed}

\* Every timing: in any status a callback arrives any time in Elapsed after
\* the one before it (two callbacks with the same timestamp do not follow
\* each other), commands arrive at any time, and GameCanvas may be torn down
\* at any time
LoopTick ==
    \E e \in Elapsed, d \in Draws({0}, {0}, {0}, {0}, {0}, {3}) :
        /\ frameCount + MAX_DT <= MaxFrameLoop
        /\ e = 0 => op.kind # "tick"
        /\ Tick(e, d)

NextLoop ==
    \/ LoopTick
    \/ TriggerJump(DustDraw)
    \/ ClickPlay
    \/ Unmount

SpecLoop == Init /\ [][NextLoop]_vars

\* a game at the nominal frame rate is followed for MaxFrameUnit frames
MaxFrameUnit == 9016

\* A long game at the nominal frame rate: every callback arrives one frame
\* after the one before it (dt = 1), the key is pressed exactly when Press
\* says, the draws are those of a long game
UnitJump ==
    /\ frameCount + 1 <= MaxFrameUnit
    /\ Press
    /\ TriggerJump(DustDraw)

UnitTick ==
    \E d \in LongDraws :
        /\ status = "PLAYING"
        /\ frameCount + 1 <= MaxFrameUnit
        /\ ~Press
        /\ Tick(1, d)

NextUnit ==
    \/ UnitJump
    \/ UnitTick

SpecUnit == Init /\ [][NextUnit]_vars

\* the frame from which the user of SpecMiss may miss a jump
MissFrom == 6400

\* A long game in which the user starts to miss jumps: as in SpecLong every
\* callback arrives MAX_DT frames after the one before it and the key is
\* pressed when Press says, but from frame MissFrom on the user may fail to
\* press, and the callback finds the player on the ground
MissTick ==
    \E d \in LongDraws :
        /\ status = "PLAYING"
        /\ frameCount >= MissFrom
        /\ frameCount + MAX_DT <= PilotEnd
        /\ Press
        /\ Tick(MAX_DT, d)

NextMiss ==
    \/ PilotJump
    \/ PilotTick
    \/ MissTick

SpecMiss == Init /\ [][NextMiss]_vars

\* a game without jumps is followed for MaxFrameStill frames
MaxFrameStill == 300

\* the game is started from the title screen, by the key or by the button
StartJump ==
    /\ status = "START"
    /\ TriggerJump(DustDraw)

StartClick ==
    /\ status = "START"
    /\ ClickPlay

\* A game in which the key is never pressed after the start: the callbacks
\* arrive at a steady rate, 1 to MAX_DT frames apart; the first obstacle is a
\* small bonsai, a large bonsai or a rock, of the smallest or the largest
\* scale, spawned at the smallest or the largest offset
StillTick ==
    \E e \in 1 .. MAX_DT,
       d \in Draws({99}, {0, 60, 97}, {0, 99}, {0}, {0, 99}, {99}) :
        /\ status = "PLAYING"
        /\ frameCount + e <= MaxFrameStill
        /\ frameCount = 0 \/ e = op.elapsed
        /\ Tick(e, d)

NextStill ==
    \/ StartJump
    \/ StartClick
    \/ StillTick
    \/ IdleTick

\* requestAnimationFrame keeps calling loop(): while the game runs, a
\* callback with dt > 0 arrives again and again
SpecStill == Init /\ [][NextStill]_vars /\ WF_vars(StillTick)

\* a game with jumps is followed for MaxFrameJump frames
MaxFrameJump == 96

\* the time a jump lasts at most: vy rises from JUMP_FORCE by GRAVITY per
\* frame, and the player is back at its level before vy reaches -JUMP_FORCE
\* (lines 226-230), one step later at the latest
AirFrames == (-2 * JUMP_FORCE) \div GRAVITY + MAX_DT

\* the key during a game, at any moment that leaves the jump the time to end
\* within the frames followed
AirJump ==
    /\ status = "PLAYING"
    /\ frameCount + AirFrames <= MaxFrameJump
    /\ TriggerJump(DustDraw)

\* a callback of a game with jumps: the callbacks arrive at a steady rate, 1
\* to MAX_DT frames apart (the first callback of loop() has dt = 0 all the
\* same); the obstacles are small or large bonsais
AirTick ==
    \E e \in 1 .. MAX_DT, d \in Draws({0}, {0, 60}, {0}, {0}, {0}, {3}) :
        /\ status = "PLAYING"
        /\ frameCount + e <= MaxFrameJump
        /\ frameCount = 0 \/ e = op.elapsed
        /\ Tick(e, d)

NextJump ==
    \/ StartJump
    \/ AirJump
    \/ AirTick
    \/ IdleTick

\* requestAnimationFrame keeps calling loop(): while the game runs, a
\* callback with dt > 0 arrives again and again
SpecJump == Init /\ [][NextJump]_vars /\ WF_vars(AirTick)

\* each game of a sequence of games is followed for MaxFrameHost frames
MaxFrameHost == 160

\* the key on the title screen or after a game over: the next game starts
HostStart ==
    /\ status # "PLAYING"
    /\ TriggerJump(DustDraw)

\* Games of different lengths, one after the other: the key is not pressed
\* during a game, the callbacks arrive MAX_DT frames apart, and the first
\* obstacle, a small bonsai, is spawned at the smallest or the largest
\* offset, so that a game ends with one of two final scores.  A render that
\* is pending comes before the frames of the next game.
HostTick ==
    \E d \in Draws({99}, {0}, {0}, {0}, {0, 99}, {99}) :
        /\ status = "PLAYING"
        /\ ~RenderPending
        /\ frameCount + MAX_DT <= MaxFrameHost
        /\ Tick(MAX_DT, d)

NextHost ==
    \/ HostStart
    \/ HostTick
    \/ IdleTick
    \/ Render

SpecHost == Init /\ [][NextHost]_vars

----------------------------------------------------------------------------
\* Properties

OtherThanOp == <<status, displayStatus, player, obstacles, clouds, particles,
                 gameSpeed, gameSpeedErr, frameCount, cycle, score, currentScore,
                 isNewRecord, highScore, localStorage, highScoreRef,
                 onGameOverRef,
                 lastTimeRef, requestRef, mounted>>

NoActiveParticle(pool) == \A i \in 1 .. Len(pool) : ~pool[i].active

C2_Transitions ==
    [][status' # status =>
          \/ /\ status \in {"START", "GAME_OVER"}
             /\ status' = "PLAYING"
             /\ op'.kind \in {"jump", "click"}
          \/ /\ status = "PLAYING"
             /\ status' = "GAME_OVER"
             /\ op'.kind = "tick"
             /\ \E i \in 1 .. Len(obstacles') : Hits(player', obstacles'[i])]_vars

\* a game has ended by a collision and a new one was started by a jump
C2_Witness ==
    /\ op.kind = "jump" /\ op.from = "GAME_OVER" /\ status = "PLAYING"
    /\ highScore > 0

\* C3: onGameOver is called exactly once in a step that takes PLAYING to
\* GAME_OVER and not at all in any other step
C3_NotifiedOnce ==
    [][Len(emitted') = (IF status = "PLAYING" /\ status' = "GAME_OVER"
                        THEN 1 ELSE 0)]_vars

\* a collision was handled while the obstacle list held further obstacles
C3_Witness ==
    /\ status = "GAME_OVER" /\ op.kind = "tick" /\ op.from = "PLAYING"
    /\ Len(emitted) = 1
    /\ Len(obstacles) >= 2
    /\ Hits(player, obstacles[1])

\* C4: triggerJump() while PLAYING and grounded sets isJumping and
\* vy = JUMP_FORCE and leaves status, score, gameSpeed, obstacles and clouds
\* unchanged
C4_GroundedJump ==
    [][(op'.kind = "jump" /\ status = "PLAYING" /\ ~player.isJumping) =>
          /\ player'.isJumping
          /\ player'.vy = JUMP_FORCE
          /\ JUMP_FORCE < 0
          /\ UNCHANGED <<status, score, gameSpeed, obstacles, clouds>>]_vars

\* a jump was accepted in the middle of a game
C4_Witness ==
    /\ op.kind = "jump" /\ op.from = "PLAYING"
    /\ player.isJumping /\ player.vy = JUMP_FORCE
    /\ Len(obstacles) > 0 /\ Len(clouds) > 0 /\ score > 0

\* C5: triggerJump() while PLAYING and airborne changes nothing
C5_AirborneJumpNoOp ==
    [][(op'.kind = "jump" /\ status = "PLAYING" /\ player.isJumping) =>
          UNCHANGED OtherThanOp]_vars

\* a jump command arrived in mid-air: the player is airborne with a
\* velocity that is no longer the impulse
C5_Witness ==
    /\ op.kind = "jump" /\ op.from = "PLAYING"
    /\ player.isJumping /\ player.vy # JUMP_FORCE
    /\ player.y < GroundLevel

\* C6: a tick while START or GAME_OVER changes nothing of the simulation
\* state, whatever dt
C6_IdleTickNoOp ==
    [][(op'.kind = "tick" /\ status # "PLAYING") =>
          UNCHANGED <<status, player, score, gameSpeed, frameCount, cycle,
                      obstacles, clouds, particles>>]_vars

\* a tick with the largest dt went by in GAME_OVER, the player frozen in
\* mid-air and the impact particles active
C6_Witness ==
    /\ op.kind = "tick" /\ op.from = "GAME_OVER" /\ op.dt = MAX_DT
    /\ status = "GAME_OVER"
    /\ player.isJumping /\ player.y < GroundLevel
    /\ \E i \in 1 .. Len(particles) :
          particles[i].active /\ particles[i].color = "#94a3b8"

\* C8: gameSpeed is never below INITIAL_SPEED, does not decrease in a tick,
\* and decreases only in a reset, which sets it to INITIAL_SPEED
C8_SpeedFloor ==
    /\ gameSpeed >= INITIAL_SPEED
    /\ [][/\ gameSpeed' >= INITIAL_SPEED
          /\ (op'.kind = "tick" => gameSpeed' >= gameSpeed)
          /\ (gameSpeed' < gameSpeed =>
                 /\ op'.kind \in {"jump", "click"}
                 /\ status # "PLAYING" /\ status' = "PLAYING"
                 /\ gameSpeed' = INITIAL_SPEED)]_vars

\* the speed has grown during a game and a reset has then brought it back
C8_Witness ==
    /\ op.kind \in {"jump", "click"} /\ op.from = "GAME_OVER"
    /\ gameSpeed = INITIAL_SPEED
    /\ cycle > 0

\* C9: score does not decrease in a tick while PLAYING, does not change
\* while GAME_OVER lasts, and is 0 right after every transition into PLAYING
C9_ScoreMonotone ==
    [][/\ (op'.kind = "tick" /\ status = "PLAYING" => score' >= score)
       /\ (status = "GAME_OVER" /\ status' = "GAME_OVER" => score' = score)
       /\ (status # "PLAYING" /\ status' = "PLAYING" => score' = 0)]_vars

\* the score has grown and a tick and a command went by in GAME_OVER
C9_Witness ==
    /\ status = "GAME_OVER" /\ op.kind = "tick" /\ op.from = "GAME_OVER"
    /\ score >= 10 * SCORE_DEN

\* C10: at the end of every tick the player's y is at most
\* GROUND_Y - PLAYER_HEIGHT (y grows downward), and the tick in which a
\* jump completes leaves y = GROUND_Y - PLAYER_HEIGHT and vy = 0, whatever dt
C10_NeverBelowGround ==
    /\ player.y <= GroundLevel
    /\ [][op'.kind = "tick" =>
             /\ player'.y <= GroundLevel
             /\ (player.isJumping /\ ~player'.isJumping =>
                    player'.y = GroundLevel /\ player'.vy = 0)]_vars

\* a jump that rose above the ground has completed in a tick with dt = 3,
\* the integrated position overshooting the ground line
C10_Witness ==
    /\ op.kind = "tick" /\ op.from = "PLAYING" /\ op.air /\ op.dt = 3
    /\ ~player.isJumping
    /\ player.y = GroundLevel /\ player.vy = 0
    /\ frameCount >= 36

\* C7: after every tick while PLAYING gameSpeed is at most MAX_SPEED and
\* equals min(MAX_SPEED, gameSpeed before the tick + SPEED_INCREMENT * dt)
C7_SpeedCapped ==
    [][(op'.kind = "tick" /\ status = "PLAYING") =>
          /\ gameSpeed' <= MAX_SPEED
          /\ gameSpeed' = Min2(MAX_SPEED,
                               gameSpeed + SPEED_INCREMENT * op'.dt)]_vars

\* C11: in every reachable state, after a command as after a tick,
\* isJumping is true if and only if y < GROUND_Y - PLAYER_HEIGHT
C11_JumpingIffAboveGround ==
    player.isJumping <=> player.y < GroundLevel

\* C11 as amended: isJumping is true if and only if the player is strictly
\* above ground level at the end of every tick; the one other state is the
\* one an accepted jump leaves until the next tick, with isJumping true,
\* the player still on the ground line and vy = JUMP_FORCE
C11_JumpingIffAboveGroundAfterTick ==
    \/ player.isJumping <=> player.y < GroundLevel
    \/ /\ op.kind = "jump" /\ op.from = "PLAYING"
       /\ player.isJumping
       /\ player.y = GroundLevel
       /\ player.vy = JUMP_FORCE

\* a tick has left the player in the air, and the flag is set
C11_Witness ==
    /\ op.kind = "tick" /\ op.from = "PLAYING" /\ op.air
    /\ player.isJumping /\ player.y < GroundLevel
    /\ player.vy > 0

\* C12: any two adjacent obstacles of the collection are more than
\* OBSTACLE_SPAWN_MIN_GAP apart in x, the later one to the right
C12_MinGap ==
    \A i \in 1 .. Len(obstacles) - 1 :
        obstacles[i + 1].x - obstacles[i].x > OBSTACLE_SPAWN_MIN_GAP

\* three obstacles are on the field, the last two spawned after a spawn
\* test with the smallest gap draw passed: they are less than a tick's
\* travel above the minimum gap apart
C12_Witness ==
    /\ Len(obstacles) >= 3
    /\ \E i \in 1 .. Len(obstacles) - 1 :
          obstacles[i + 1].x - obstacles[i].x
              < OBSTACLE_SPAWN_MIN_GAP + (gameSpeed * MAX_DT)

\* C13: after every tick while PLAYING no obstacle with x + width <= -100
\* and no cloud with x <= -100 is left in its collection, and every obstacle
\* and cloud that the tick's move leaves inside that boundary is kept
C13_OffscreenRemoved ==
    [][(op'.kind = "tick" /\ status = "PLAYING") =>
          /\ \A j \in 1 .. Len(obstacles') :
                obstacles'[j].x + obstacles'[j].width > LEFT_MARGIN
          /\ \A j \in 1 .. Len(clouds') : clouds'[j].x > LEFT_MARGIN
          /\ \A i \in 1 .. Len(obstacles) :
                LET o == [obstacles[i] EXCEPT !.x = @ - gameSpeed' * op'.dt]
                IN  o.x + o.width > LEFT_MARGIN =>
                        \E j \in 1 .. Len(obstacles') : obstacles'[j] = o
          /\ \A i \in 1 .. Len(clouds) :
                LET c == [clouds[i] EXCEPT !.x = @ - clouds[i].speed * op'.dt]
                IN  c.x > LEFT_MARGIN =>
                        \E j \in 1 .. Len(clouds') : clouds'[j] = c]_vars

\* late in a game: the rocks of its beginning have crossed the boundary and
\* are gone, the only obstacle being a bird; of the clouds, the earlier ones
\* are gone and the oldest one left is within two ticks of the boundary
C13_Witness ==
    /\ op.kind = "tick" /\ op.from = "PLAYING" /\ status = "PLAYING"
    /\ Len(obstacles) = 1 /\ obstacles[1].type = "BIRD"
    /\ Len(clouds) >= 2
    /\ clouds[1].x < LEFT_MARGIN + 2 * clouds[1].speed * MAX_DT
    /\ frameCount > 6 * CloudEvery

\* C14: after every tick while PLAYING no active particle lies fully left
\* of the -100 margin (x + size < -100)
C14_NoParticleLeftOfMargin ==
    (op.kind = "tick" /\ op.from = "PLAYING") =>
        \A i \in Slots :
            particles[i].active =>
                particles[i].x + particles[i].size >= LEFT_MARGIN

\* C15: at most MAX_PARTICLES particles are active in every reachable
\* state, and the pool keeps its MAX_PARTICLES slots
C15_PoolBounded ==
    /\ DOMAIN particles = Slots
    /\ Cardinality({i \in DOMAIN particles : particles[i].active})
          <= MAX_PARTICLES

\* every slot is active right after an accepted jump asked for five more
\* particles: the pool was exhausted by the spawn calls
C15_Witness ==
    /\ op.kind = "jump" /\ op.from = "PLAYING" /\ ~op.air
    /\ player.isJumping
    /\ \A i \in Slots : particles[i].active

\* C16: a BIRD is in the collection only while score > 150 and a TORII only
\* while score > 300, and every BIRD is at one of the two heights
\* GROUND_Y - PLAYER_HEIGHT - 10 and GROUND_Y - 50
C16_ScoreGates ==
    \A i \in 1 .. Len(obstacles) :
        /\ obstacles[i].type = "BIRD" =>
              /\ score > 150 * SCORE_DEN
              /\ obstacles[i].y \in {GROUND_Y - PLAYER_HEIGHT - 10 * PX,
                                     GROUND_Y - 50 * PX}
        /\ obstacles[i].type = "TORII" => score > 300 * SCORE_DEN

\* a torii is on the field, in a game whose draws asked for the rarest
\* variant at every spawn since its start
C16_Witness ==
    /\ status = "PLAYING"
    /\ \E i \in 1 .. Len(obstacles) : obstacles[i].type = "TORII"

\* C17: in the tick that detects a collision the new-record flag is
\* floor(score) > the high score last stored in highScoreRef, and the
\* notification is handled by the callback last stored in onGameOverRef
\* (the host's high score becomes floor(score) exactly when that exceeds the
\* high score this callback holds), whatever both were when the loop started
C17_CurrentHostValues ==
    [][(status = "PLAYING" /\ status' = "GAME_OVER") =>
          /\ emitted' = <<FloorScore(score')>>
          /\ isNewRecord' = (FloorScore(score') > highScoreRef)
          /\ highScore' = (IF FloorScore(score') > onGameOverRef
                           THEN FloorScore(score') ELSE highScore)]_vars

\* a second game has ended after the host raised its high score: the final
\* score beats the high score of the first render (0) and not the current
\* one, and is no new record
C17_Witness ==
    /\ status = "GAME_OVER" /\ op.kind = "tick" /\ op.from = "PLAYING"
    /\ Len(emitted) = 1
    /\ emitted[1] > 0
    /\ emitted[1] <= highScoreRef
    /\ ~isNewRecord
    /\ highScore = highScoreRef

\* C18: the value passed to onGameOver is floor(score) of the tick that
\* detected the collision, a non-negative integer, and score keeps its value
\* as long as GAME_OVER lasts, so that the value passed stays floor(score)
\* until the next reset
C18_FinalScore ==
    [][/\ (status = "PLAYING" /\ status' = "GAME_OVER") =>
             /\ Len(emitted') = 1
             /\ emitted'[1] = FloorScore(score')
             /\ emitted'[1] * SCORE_DEN <= score'
             /\ score' < (emitted'[1] + 1) * SCORE_DEN
             /\ emitted'[1] >= 0
       /\ (status = "GAME_OVER" /\ status' = "GAME_OVER") =>
             FloorScore(score') = FloorScore(score)]_vars

\* a collision has just been notified with a final score that is the score
\* rounded down, the score having a fractional part
C18_Witness ==
    /\ status = "GAME_OVER" /\ op.kind = "tick" /\ op.from = "PLAYING"
    /\ Len(emitted) = 1
    /\ emitted[1] >= 1
    /\ emitted[1] * SCORE_DEN < score

\* C19: while GameCanvas is mounted exactly one frame request is pending and
\* requestRef holds its handle; once it is torn down no request is pending
\* and nothing happens any more: the teardown is the last operation
C19_StopsForGood ==
    /\ mounted => requestRef.pending /\ requestRef.orphans = 0
    /\ ~mounted => /\ ~requestRef.pending /\ requestRef.orphans = 0
                   /\ op.kind = "unmount"

\* GameCanvas was torn down in the middle of a game, after several callbacks
C19_Witness ==
    /\ ~mounted /\ status = "PLAYING"
    /\ frameCount > MAX_DT /\ player.isJumping

\* C20: every callback hands update a dt with 0 <= dt <= 4 that is the time
\* since the callback before it, clamped to 4 (0 for the first callback),
\* whatever the status; the simulation advances by exactly that dt, and the
\* timestamp is refreshed by every callback
C20_DtClamped ==
    [][op'.kind = "tick" =>
          /\ 0 <= op'.dt /\ op'.dt <= MAX_DT
          /\ op'.dt = IF lastTimeRef.set THEN Min2(op'.elapsed, MAX_DT) ELSE 0
          /\ status = "PLAYING" => frameCount' = frameCount + op'.dt
          /\ status # "PLAYING" => frameCount' = frameCount
          /\ lastTimeRef'.set /\ lastTimeRef'.behind = 0]_vars

\* a callback came MaxElapsed frames after the one before it, in the middle
\* of a game, and advanced the game by MAX_DT frames
C20_Witness ==
    /\ op.kind = "tick" /\ op.from = "PLAYING"
    /\ op.elapsed = MaxElapsed /\ op.dt = MAX_DT /\ frameCount > MAX_DT
    /\ lastTimeRef.set /\ lastTimeRef.behind = 0

\* C21: on every callback, in every status, draw() is called and the next
\* frame is requested; when the canvas or its context is missing draw()
\* paints nothing and does not throw, and the update of that callback has
\* advanced the simulation by dt as on any other callback
C21_DrawSkippedLoopGoesOn ==
    [][op'.kind = "tick" =>
          /\ requestRef'.pending /\ requestRef'.orphans = 0
          /\ status = "PLAYING" => frameCount' = frameCount + op'.dt
          /\ status # "PLAYING" => frameCount' = frameCount
          /\ drawn'.painted => drawn'.sky = getSkyColor(cycle')
          /\ ~drawn'.painted => drawn'.sky = <<>> /\ ~drawn'.stars]_vars

\* a callback found no surface in the middle of a game: nothing was painted,
\* the game advanced and the next frame is requested
C21_Witness ==
    /\ op.kind = "tick" /\ op.from = "PLAYING" /\ op.dt > 0
    /\ ~drawn.painted /\ frameCount > MAX_DT
    /\ requestRef.pending /\ mounted

\* C22: draw() leaves the refs it reads (player, frameCount, cycle phase,
\* obstacles, clouds, particles) exactly as update() left them, in every
\* status
C22_DrawKeepsState == op.kind = "tick" => drawn.kept

\* draw() painted the collision: the game is over, an obstacle and active
\* particles are on the canvas
C22_Witness ==
    /\ op.kind = "tick" /\ op.from = "PLAYING" /\ status = "GAME_OVER"
    /\ drawn.painted /\ drawn.kept
    /\ Len(obstacles) > 0 /\ ~NoActiveParticle(particles)

Max2(a, b) == IF a > b THEN a ELSE b

\* the box from corner (x1, y1) to corner (x2, y2), in pixels
Box(x1, y1, x2, y2) ==
    [x |-> x1 * PX, y |-> y1 * PX, width |-> (x2 - x1) * PX,
     height |-> (y2 - y1) * PX]

\* the reference test: the two boxes share an area, i.e. on each axis the
\* larger of the two lower ends lies strictly below the smaller of the two
\* upper ends
Intersects(a, b) ==
    /\ Max2(a.x, b.x) < Min2(a.x + a.width, b.x + b.width)
    /\ Max2(a.y, b.y) < Min2(a.y + a.height, b.y + b.height)

\* the positions at which box b touches box a, overlaps it by one length
\* unit or misses it by one, on each side, and the position b has
EdgeXs(a, b) ==
    {b.x} \cup {a.x - b.width + k : k \in -1 .. 1}
          \cup {a.x + a.width + k : k \in -1 .. 1}

EdgeYs(a, b) ==
    {b.y} \cup {a.y - b.height + k : k \in -1 .. 1}
          \cup {a.y + a.height + k : k \in -1 .. 1}

\* C23: the collision test of update() is the strict intersection test of
\* the two inset boxes: for the player and every obstacle of every state, at
\* the obstacle's position and at every position where its box touches,
\* barely overlaps or barely misses the player's, the test agrees with the
\* reference; the player box [58,278]-[78,358] collides with the obstacle
\* box [60,300]-[90,346] and not with the same box moved to x = 200
C23_OverlapIsStrictAABB ==
    /\ Overlap(Box(58, 278, 78, 358), Box(60, 300, 90, 346))
    /\ ~Overlap(Box(58, 278, 78, 358), Box(200, 300, 230, 346))
    /\ \A i \in 1 .. Len(obstacles) :
          LET a == PlayerHitbox(player)
              b == ObstacleHitbox(obstacles[i])
          IN  /\ Hits(player, obstacles[i]) <=> Intersects(a, b)
              /\ \A bx \in EdgeXs(a, b), by \in EdgeYs(a, b) :
                    LET c == [b EXCEPT !.x = bx, !.y = by]
                    IN  Overlap(a, c) <=> Intersects(a, c)

\* a tick ended the game: the player's inset box and an obstacle's intersect
C23_Witness ==
    /\ op.kind = "tick" /\ op.from = "PLAYING" /\ status = "GAME_OVER"
    /\ \E i \in 1 .. Len(obstacles) :
          /\ Hits(player, obstacles[i])
          /\ Intersects(PlayerHitbox(player), ObstacleHitbox(obstacles[i]))

\* C24: in every state the cycle phase is (frameCount mod 3000) / 3000 and
\* lies in [0, 1); right after a reset, when frameCount is 0, it is 0
C24_PhaseFollowsFrameCount ==
    /\ cycle = frameCount % CYCLE_PERIOD
    /\ 0 <= cycle /\ cycle < CYCLE_PERIOD

\* C25: in a game whose ticks all have dt = 1, from the tick that brings
\* frameCount to (MAX_SPEED - INITIAL_SPEED) / SPEED_INCREMENT = 9000 on,
\* gameSpeed is exactly MAX_SPEED
C25_ReachesMaxExactly ==
    (status = "PLAYING" /\ frameCount >= SpeedCapFrame) =>
        (gameSpeed = MAX_SPEED /\ gameSpeedErr = 0)

\* the number of values of the draw r, in hundredths, for which spawnObstacle
\* makes an obstacle of type t at score sc: the width of the band of t
BandWidth(sc, t) ==
    Cardinality({u \in 0 .. 99 :
        ObstacleShape(sc, [r |-> u, scale |-> 0, high |-> 0]).type = t})

\* C26: at every score the bands of the draw r keep the order TORII < BIRD
\* (each once unlocked) < ROCK < BONSAI_LARGE < BONSAI_SMALL, and ROCK can
\* be drawn
C26_BandOrder ==
    /\ BandWidth(score, "ROCK") > 0
    /\ BandWidth(score, "ROCK") < BandWidth(score, "BONSAI_LARGE")
    /\ BandWidth(score, "BONSAI_LARGE") < BandWidth(score, "BONSAI_SMALL")
    /\ score > 150 * SCORE_DEN =>
          /\ BandWidth(score, "BIRD") > 0
          /\ BandWidth(score, "BIRD") < BandWidth(score, "ROCK")
    /\ score > 300 * SCORE_DEN =>
          /\ BandWidth(score, "TORII") > 0
          /\ BandWidth(score, "TORII") < BandWidth(score, "BIRD")

\* colours a and b differ by at most one step on every channel: the
\* colours of neighbouring phases where the sky has no jump (a channel moves
\* by less than one step per frame and lerpColor drops the fraction)
Close(a, b) ==
    \A i \in 1 .. 3 : a[i] - b[i] \in -1 .. 1

\* colour c lies strictly between colours a and b on every channel
StrictlyBetween(c, a, b) ==
    \A i \in 1 .. 3 : Min2(a[i], b[i]) < c[i] /\ c[i] < Max2(a[i], b[i])

C28_OrderedPrefixRemoval ==
    [][(op'.kind = "tick" /\ status = "PLAYING") =>
          /\ \A i \in 1 .. Len(obstacles') - 1 :
                obstacles'[i].x < obstacles'[i + 1].x
          /\ \E k \in 0 .. Len(obstacles), n \in 0 .. 1 :
                /\ Len(obstacles') = Len(obstacles) - k + n
                /\ \A i \in 1 .. Len(obstacles) - k :
                      obstacles'[i] =
                          [obstacles[i + k] EXCEPT
                              !.x = @ - gameSpeed' * op'.dt]
                /\ \A i \in 1 .. k :
                      obstacles[i].x - gameSpeed' * op'.dt
                          + obstacles[i].width <= LEFT_MARGIN
                /\ n = 1 =>
                      obstacles'[Len(obstacles')].x
                          >= CANVAS_WIDTH - gameSpeed' * op'.dt]_vars

\* late in a game two obstacles or more are on the field and the first of
\* the list is far from the left margin: the obstacle of the first tick has
\* been dropped from the front
C28_Witness ==
    /\ op.kind = "tick" /\ status = "PLAYING"
    /\ frameCount >= MaxFrameSpawn - MAX_DT
    /\ Len(obstacles) >= 2
    /\ obstacles[1].x + obstacles[1].width > LEFT_MARGIN + 300 * PX

\* boxes a and b overlap on the vertical axis
OverlapY(a, b) == a.y < b.y + b.height /\ a.y + a.height > b.y

\* C29: no tick takes an obstacle whose inset box overlaps the player's on
\* the vertical axis from entirely right of the player's inset box to
\* entirely left of it
C29_NoTunnel ==
    [][(op'.kind = "tick" /\ status = "PLAYING") =>
          \A i \in 1 .. Len(obstacles) :
              LET before == ObstacleHitbox(obstacles[i])
                  after == [before EXCEPT !.x = @ - gameSpeed' * op'.dt]
              IN  ~ /\ OverlapY(PlayerHitbox(player), before)
                    /\ OverlapY(PlayerHitbox(player'), after)
                    /\ before.x >= PlayerHitbox(player).x
                                       + PlayerHitbox(player).width
                    /\ after.x + after.width <= PlayerHitbox(player').x]_vars

\* every obstacle spawnObstacle can make: at a score below and above each
\* gate, for every variant draw, the smallest, a middle and the largest
\* scale, and both bird heights
EveryObstacle ==
    {spawnObstacle(<<>>, sc * SCORE_DEN,
                   [r |-> u, scale |-> k, high |-> h, xoff |-> 0])[1] :
        sc \in {0, 151, 301}, u \in 0 .. 99, k \in {0, 50, 99},
        h \in {0, 99}}

\* C30: the inset box of every obstacle that can spawn overlaps the inset
\* box of the player on the ground on the vertical axis, and a game in
\* which the key is not pressed after the start and ticks with dt > 0 keep
\* arriving ends at its first obstacle
C30_NoJumpEndsGame ==
    /\ [](\A o \in EveryObstacle :
             OverlapY(PlayerHitbox(StartPlayer), ObstacleHitbox(o)))
    /\ [](status = "GAME_OVER" =>
             Len(obstacles) = 1 /\ Hits(player, obstacles[1]))
    /\ (status = "PLAYING") ~> (status = "GAME_OVER")

\* the game ended at its first obstacle, a rock, and the player never left
\* the ground
C30_Witness ==
    /\ status = "GAME_OVER" /\ op.kind = "tick" /\ op.from = "PLAYING"
    /\ ~op.air /\ player.y = GroundLevel
    /\ Len(obstacles) = 1 /\ obstacles[1].type = "ROCK"
    /\ Hits(player, obstacles[1])

\* the tick asks for the landing dust (lines 230-233): the player p it finds
\* has the jump flag set and the physics step puts it on or below the ground
\* line
LandingDust(p, dt) == p.isJumping /\ OnGround(Integrate(p, dt))

\* C31: the tick that follows an accepted jump, whatever its dt in 0..MAX_DT,
\* leaves isJumping true, vy negative and the player strictly above ground
\* level, and asks for no landing dust
C31_JumpNotCancelled ==
    [][(/\ op.kind = "jump" /\ op.from = "PLAYING" /\ ~op.air
        /\ player.isJumping
        /\ op'.kind = "tick") =>
          /\ player'.isJumping
          /\ player'.vy < 0
          /\ player'.y < GroundLevel
          /\ ~LandingDust(player, op'.dt)]_vars

\* the slots a tick activates with dust spawned at x0 (lines 232, 239): they
\* are inactive before the tick, and active after it with the dust colour at
\* the place where the particle step of the same tick (lines 294-295) puts a
\* particle spawned at x0
DustBorn(x0) ==
    {i \in Slots :
        /\ ~particles[i].active
        /\ particles'[i].active
        /\ particles'[i].color = "#cbd5e1"
        /\ particles'[i].x = x0 - gameSpeed' * op'.dt
                                + particles'[i].vx * op'.dt}

\* the number of slots a spawn call can take
Free(pool) == Cardinality({i \in 1 .. Len(pool) : ~pool[i].active})

\* the tick clears the jump flag (line 236)
Lands == player.isJumping /\ ~player'.isJumping

\* C32: while PLAYING and ticks with dt > 0 keep arriving, every accepted
\* jump is followed by a tick in which the player lands (y on the ground
\* line, vy = 0, isJumping cleared); the landing dust burst (8 particles, as
\* far as the pool has room) is spawned on the tick that lands and on no
\* other tick, in particular on none that found the jump flag cleared; and
\* the flag is set by an accepted jump only, so once per accepted jump
C32_LandsDustOnce ==
    /\ [][(op'.kind = "tick" /\ status = "PLAYING") =>
             /\ Lands => /\ player'.y = GroundLevel
                         /\ player'.vy = 0
             /\ Cardinality(DustBorn(player.x + PLAYER_WIDTH \div 2))
                   = (IF Lands THEN Min2(8, Free(particles)) ELSE 0)]_vars
    /\ [][(~player.isJumping /\ player'.isJumping) =>
             /\ op'.kind = "jump"
             /\ status = "PLAYING"]_vars
    /\ (status = "PLAYING" /\ player.isJumping)
          ~> (\/ status # "PLAYING"
              \/ /\ ~player.isJumping
                 /\ player.y = GroundLevel
                 /\ player.vy = 0)

\* the player has just landed from a jump made in mid-game, on a tick with
\* dt > 0 that spawned the eight particles of the landing dust
C32_Witness ==
    /\ op.kind = "tick" /\ op.from = "PLAYING" /\ op.air /\ op.dt > 0
    /\ status = "PLAYING"
    /\ ~player.isJumping /\ player.y = GroundLevel /\ player.vy = 0
    /\ frameCount > AirFrames
    /\ Cardinality({i \in Slots :
          /\ particles[i].active
          /\ particles[i].life = LIFE_ONE - particles[i].decay * op.dt
          /\ particles[i].x = player.x + PLAYER_WIDTH \div 2
                                - gameSpeed * op.dt
                                + particles[i].vx * op.dt}) = 8

\* the spawn calls of the program: count and type at lines 213, 232, 239, 362
SpawnCalls ==
    {[count |-> 5, type |-> "dust"], [count |-> 8, type |-> "dust"],
     [count |-> 2, type |-> "dust"], [count |-> 20, type |-> "impact"]}

\* r is pool after a spawn of count particles as the claim describes it: the
\* slots taken are inactive slots of pool, min(count, free slots) of them,
\* no inactive slot of pool below a taken one is left out, each taken slot is
\* active with life 1 and the colour of its type, every other slot is as it
\* was
SpawnedInto(pool, r, count, type) ==
    LET idle == {i \in 1 .. Len(pool) : ~pool[i].active}
        taken == {i \in idle : r[i].active}
    IN  /\ Len(r) = Len(pool)
        /\ Cardinality(taken) = Min2(count, Cardinality(idle))
        /\ \A i \in taken : \A j \in idle \ taken : i < j
        /\ \A i \in taken :
              /\ r[i].life = LIFE_ONE
              /\ r[i].color = (IF type = "impact" THEN "#94a3b8"
                                                  ELSE "#cbd5e1")
        /\ \A i \in (1 .. Len(pool)) \ taken : r[i] = pool[i]
        /\ idle = {} => r = pool

\* C33: spawnParticles activates exactly min(count, number of inactive
\* slots) slots, the inactive slots of lowest index, with life 1, and leaves
\* every other slot unchanged; on a full pool it changes nothing.  Stated of
\* every spawn call of the program applied to every pool the program
\* reaches, and of the spawn call of every accepted jump
C33_SpawnFillsLowestSlots ==
    /\ [](\A c \in SpawnCalls :
             SpawnedInto(particles,
                         spawnParticles(particles, player.x, player.y,
                                        c.count, c.type, DustDraw),
                         c.count, c.type))
    /\ [][(op'.kind = "jump" /\ status = "PLAYING" /\ ~player.isJumping) =>
             SpawnedInto(particles, particles', 5, "dust")]_vars

\* an accepted jump has asked for five particles when the pool had fewer than
\* five inactive slots: every slot is active, fewer than five particles have
\* the full life 1, the others are older
C33_Witness ==
    /\ op.kind = "jump" /\ op.from = "PLAYING" /\ ~op.air
    /\ player.isJumping
    /\ \A i \in Slots : particles[i].active
    /\ Cardinality({i \in Slots : particles[i].life = LIFE_ONE}) \in 1 .. 4

\* the life slot i has left after the particle step of the tick being taken
\* (line 296)
Aged(i) == particles[i].life - particles[i].decay * op'.dt

\* a step of the simulation: a callback that finds the game PLAYING
PlayingTick == op'.kind = "tick" /\ status = "PLAYING"

\* every active particle has 0 < life <= 1 (lines 101, 296-299)
LifeInRange ==
    \A i \in Slots :
        particles[i].active =>
            particles[i].life > 0 /\ particles[i].life <= LIFE_ONE

\* what a step does to the slots that are inactive or outlive it: a slot is
\* activated by a jump or a tick only, with life 1 (less the decay of the
\* tick that activates it before its particle step); a particle that outlives
\* a tick has its life reduced by decay * dt, and no other step changes it
LifeOnlyDecreases ==
    \A i \in Slots :
        /\ (~particles[i].active /\ particles'[i].active) =>
              /\ op'.kind \in {"jump", "tick"}
              /\ particles'[i].life
                    \in {LIFE_ONE,
                         LIFE_ONE - particles'[i].decay * op'.dt}
        /\ (PlayingTick /\ particles[i].active /\ Aged(i) > 0) =>
              /\ particles'[i].active
              /\ particles'[i].life = Aged(i)
              /\ particles'[i].decay = particles[i].decay
        /\ (~PlayingTick /\ particles[i].active /\ particles'[i].active) =>
              particles'[i] = particles[i]

\* C34: each active particle has 0 < life <= 1 at the end of every tick and
\* command: a particle is activated with life 1, its life only decreases, by
\* decay * dt per PLAYING tick, and a slot whose life reaches 0 or less
\* during a tick is inactive at the end of that tick
C34_LifeInUnitRange ==
    /\ []LifeInRange
    /\ [][LifeOnlyDecreases]_vars
    /\ [][\A i \in Slots :
             (PlayingTick /\ particles[i].active /\ Aged(i) <= 0) =>
                 ~particles'[i].active]_vars

\* slot i holds an impact particle that the collision handling of the tick
\* being taken has just spawned (line 362)
FreshImpact(i) ==
    /\ status' = "GAME_OVER"
    /\ particles'[i].active
    /\ particles'[i].life = LIFE_ONE
    /\ particles'[i].color = "#94a3b8"

\* C34 as the code has it: each active particle has 0 < life <= 1 at the end
\* of every tick and command, a particle is activated with life 1 and its
\* life only decreases, by decay * dt per PLAYING tick; a slot whose life
\* reaches 0 or less during a tick is deactivated in that tick, and at the
\* end of the tick it is inactive or holds a new impact particle with life 1
\* that the collision handling of the same tick spawned into it
C34_LifeInUnitRangeOrReused ==
    /\ []LifeInRange
    /\ [][LifeOnlyDecreases]_vars
    /\ [][\A i \in Slots :
             (PlayingTick /\ particles[i].active /\ Aged(i) <= 0) =>
                 ~particles'[i].active \/ FreshImpact(i)]_vars

\* a collision tick has ended with impact particles in the lowest slots and
\* older dust above them: the slots of dust that had run out were reused
C34_Witness ==
    /\ op.kind = "tick" /\ op.from = "PLAYING" /\ status = "GAME_OVER"
    /\ particles[1].active /\ particles[1].color = "#94a3b8"
    /\ particles[1].life = LIFE_ONE
    /\ \E i \in Slots :
          /\ particles[i].active /\ particles[i].color = "#cbd5e1"
          /\ particles[i].life < LIFE_ONE - particles[i].decay * op.dt

RECURSIVE parseInt(_)
\* parseInt(saved, 10) (src/App.tsx 10) of an item of decimal digits: the
\* number they spell
parseInt(item) ==
    IF Len(item) = 1 THEN item[1]
    ELSE 10 * parseInt(SubSeq(item, 1, Len(item) - 1)) + item[Len(item)]

\* the item is the decimal numeral of a non-negative integer
IsNumeral(item) ==
    /\ Len(item) >= 1
    /\ \A k \in 1 .. Len(item) : item[k] \in 0 .. 9
    /\ Len(item) > 1 => item[1] # 0

\* C35: the host's high score never decreases; after each game-over
\* notification it is the maximum of its value before and the final score
\* emitted; the value written to storage is the numeral of a non-negative
\* integer, the high score the host has from that notification on
C35_HighScoreNeverDecreases ==
    /\ [][highScore' >= highScore]_vars
    /\ [][\A k \in 1 .. Len(emitted') :
             highScore' = Max2(highScore, emitted'[k])]_vars
    /\ [][localStorage' # localStorage =>
             /\ Len(emitted') > 0
             /\ IsNumeral(localStorage')
             /\ parseInt(localStorage') = highScore'
             /\ highScore' \in Nat]_vars
    /\ [](localStorage # NoItem => parseInt(localStorage) = highScore)

\* a later game has ended with a final score of two digits above the high
\* score of the games before it, which the refs hold; it was stored
C35_Witness ==
    /\ status = "GAME_OVER" /\ op.kind = "tick" /\ op.from = "PLAYING"
    /\ Len(emitted) = 1
    /\ highScoreRef > 0
    /\ emitted[1] > highScoreRef
    /\ highScore = emitted[1]
    /\ Len(localStorage) = 2
    /\ parseInt(localStorage) = emitted[1]

\* the step takes the game from PLAYING to GAME_OVER
GameOverStep == status = "PLAYING" /\ status' = "GAME_OVER"

\* C36: at each game over the new-record flag is set exactly if the host
\* raises its high score on that notification: the core (highScoreRef) and
\* the callback (onGameOverRef) hold the same high score, that of the host
\* before the notification, both compare the final score with it by >, and a
\* final score equal to it is neither flagged nor stored
C36_FlagIffRaised ==
    [][GameOverStep =>
          /\ highScoreRef = onGameOverRef
          /\ highScoreRef = highScore
          /\ Len(emitted') = 1
          /\ isNewRecord' = (emitted'[1] > highScore)
          /\ isNewRecord' = (highScore' > highScore)
          /\ isNewRecord' = (localStorage' # localStorage)
          /\ isNewRecord' => /\ highScore' = emitted'[1]
                             /\ parseInt(localStorage') = emitted'[1]
          /\ emitted'[1] = highScore =>
                /\ ~isNewRecord'
                /\ UNCHANGED <<highScore, localStorage>>]_vars

\* a game has ended with a final score equal to the high score that an
\* earlier game has set: no new record, high score and item as they were
C36_Witness ==
    /\ status = "GAME_OVER" /\ op.kind = "tick" /\ op.from = "PLAYING"
    /\ Len(emitted) = 1
    /\ emitted[1] = highScoreRef /\ highScoreRef > 0
    /\ ~isNewRecord
    /\ highScore = emitted[1]
    /\ localStorage = toString(emitted[1])

====
